---- MODULE Spec2Model ----
(***************************************************************************)
(* The object registry of lvmdbusd (daemons/lvmdbusd/objectmanager.py):    *)
(* the entry table _objects, the identifier index _id_to_object_path and   *)
(* the reentrant lock rlock, with every public operation of ObjectManager. *)
(*                                                                         *)
(* Identifiers are sequences of one-character strings, so that the         *)
(* normalisations of _id_lookup (the split on the first "/", the           *)
(* "vg/[lv]" form) are computed rather than assumed.  The empty sequence   *)
(* stands for both None and '' (all the code does with either is test its  *)
(* truth).  Object paths are the numbers the path generators hand out;     *)
(* None is 0.                                                              *)
(***************************************************************************)
EXTENDS Naturals, Sequences, FiniteSets, TLC

\* ------------------------------------------------------------- bounds
\* Paths 1..MaxPath exist; the path generators stop minting at MaxPath.
MaxPath == 2
\* Paths minted before the first registry call (by a generator called
\* directly by the asset layer when it builds a handle).
InitPaths == 1
\* Threads of the concurrent specifications.
NumThreads == 2

\* ------------------------------------------------------------- values
None == 0
Empty == <<>>
Paths == 1..MaxPath
\* One dbus object (handle) per path; dbus_object_path() of handle h.
Handles == 1..MaxPath
dbus_object_path(h) == h

U1 == <<"u">>
U2 == <<"w">>
VgLv == <<"v", "/", "l">>
VgHiddenLv == <<"v", "/", "[", "l", "]">>
DevLink == <<"/", "s">>
DevReal == <<"/", "d">>
Unknown == <<"[", "u", "n", "k", "n", "o", "w", "n", "]">>
\* A name with a second "/", and the hidden form of it that splits on the first.
VgSubLv == <<"v", "/", "l", "/", "x">>
VgHiddenSubLv == <<"v", "/", "[", "l", "/", "x", "]">>

\* The identifiers a handle may carry (dbus_object.Uuid, dbus_object.lvm_id)
\* and the ones a caller may ask about.
HandleUuids == {Empty, U1, U2}
HandleLvmIds == {Empty, VgLv, VgHiddenLv, DevReal, Unknown}
QueryUuids == {U1, U2}
QueryLvmIds == {VgLv, VgHiddenLv, DevLink, Unknown}
\* Identifiers asked about alone (Manager.LookUpByLvmId: uuid == lvm_id).
LookupIds == {U1, U2, VgLv, VgHiddenLv, DevLink, DevReal, Unknown}
\* path_create: no generator, pv_obj_path_generate, or another generator.
NoGen == "none"
pv_obj_path_generate == "pv"
OtherGen == "lv"
\* The names the objects of the name-lookup specification carry, and the
\* names asked about there.
NameLvmIds == {VgLv, VgHiddenLv, VgSubLv, VgHiddenSubLv}
NameQueries == {VgLv, VgHiddenLv, VgSubLv}
\* <<path_create, gen_new>> of the calls that pass the asserts of lines 281-283.
Modes == {<<NoGen, FALSE>>, <<pv_obj_path_generate, FALSE>>,
          <<pv_obj_path_generate, TRUE>>, <<OtherGen, TRUE>>}
\* <<uuid, lvm_id, path_create, gen_new>> of calls that fail an assert of
\* lines 278-283.
BadCalls == {<<Empty, VgLv, NoGen, FALSE>>, <<U1, Empty, NoGen, FALSE>>,
             <<U1, VgLv, NoGen, TRUE>>, <<U1, U1, OtherGen, TRUE>>}

\* ------------------------------------------------------------- state
VARIABLES
  objects,            \* self._objects: path -> (obj, lvm_id, uuid)
  id_to_object_path,  \* self._id_to_object_path: identifier -> path
  next_path,          \* the last path a generator minted
  signals,            \* the signals emitted by the most recent call
  shared,             \* history: some call stored an identifier another path's entry held
  last,               \* the most recent call: its name and its dbus object
  out,                \* its outcome: return value, AssertionError, paths minted, branch taken
  rlock,              \* self.rlock: owner thread and recursion count
  pc,                 \* per thread: where it is in its call
  guard,              \* per thread: it is inside "with om.locked():"
  pending,            \* per thread: the signal its call has still to emit
  tlast               \* per thread: the call it made last and what came back

vars == <<objects, id_to_object_path, next_path, signals, shared, last, out,
          rlock, pc, guard, pending, tlast>>
regvars == <<objects, id_to_object_path, next_path>>
threadvars == <<rlock, pc, guard, pending, tlast>>

\* ------------------------------------------------------------- dictionaries
\* d[k] = v
Put(d, k, v) == [x \in DOMAIN d \cup {k} |-> IF x = k THEN v ELSE d[x]]
\* del d[k]
Del(d, k) == [x \in DOMAIN d \ {k} |-> d[x]]
EmptyDict == [x \in {} |-> None]

Reg(objs, idx) == [objects |-> objs, ids |-> idx]

\* ------------------------------------------------------------- _lookup_remove
\* Mutation: the uuid key stays in the index.
_lookup_remove_keeps_uuid(objs, idx, obj_path) ==
  IF obj_path \in DOMAIN objs
  THEN LET e == objs[obj_path]
           i1 == IF e.lvm_id \in DOMAIN idx THEN Del(idx, e.lvm_id) ELSE idx
       IN Reg(Del(objs, obj_path), i1)
  ELSE Reg(objs, idx)

\* Mutation: the index is purged and the entry stays in the table.
_lookup_remove_keeps_entry(objs, idx, obj_path) ==
  IF obj_path \in DOMAIN objs
  THEN LET e == objs[obj_path]
           i1 == IF e.lvm_id \in DOMAIN idx THEN Del(idx, e.lvm_id) ELSE idx
           i2 == IF e.uuid \in DOMAIN i1 THEN Del(i1, e.uuid) ELSE i1
       IN Reg(objs, i2)
  ELSE Reg(objs, idx)

_lookup_remove(objs, idx, obj_path) ==
  IF obj_path \in DOMAIN objs
  THEN LET e == objs[obj_path]
           i1 == IF e.lvm_id \in DOMAIN idx THEN Del(idx, e.lvm_id) ELSE idx
           i2 == IF e.uuid \in DOMAIN i1 THEN Del(i1, e.uuid) ELSE i1
       IN Reg(Del(objs, obj_path), i2)
  ELSE Reg(objs, idx)

\* ------------------------------------------------------------- _lookup_add
\* Mutation: "elif uuid": the uuid is indexed only when there is no lvm_id.
_lookup_add_elif_uuid(objs, idx, obj, path, lvm_id, uuid) ==
  LET r == _lookup_remove(objs, idx, path)
      o2 == Put(r.objects, path, [obj |-> obj, lvm_id |-> lvm_id, uuid |-> uuid])
      i1 == IF lvm_id # Empty THEN Put(r.ids, lvm_id, path)
            ELSE IF uuid # Empty THEN Put(r.ids, uuid, path) ELSE r.ids
  IN IF lvm_id = Empty /\ uuid = Empty
     THEN [objects |-> o2, ids |-> r.ids, raised |-> TRUE]
     ELSE [objects |-> o2, ids |-> i1, raised |-> FALSE]

\* raised: the assert of line 90 failed; the entry of line 87 is already stored.
_lookup_add(objs, idx, obj, path, lvm_id, uuid) ==
  LET r == _lookup_remove(objs, idx, path)
      o2 == Put(r.objects, path, [obj |-> obj, lvm_id |-> lvm_id, uuid |-> uuid])
      i1 == IF lvm_id # Empty THEN Put(r.ids, lvm_id, path) ELSE r.ids
      i2 == IF uuid # Empty THEN Put(i1, uuid, path) ELSE i1
  IN IF lvm_id = Empty /\ uuid = Empty
     THEN [objects |-> o2, ids |-> r.ids, raised |-> TRUE]
     ELSE [objects |-> o2, ids |-> i2, raised |-> FALSE]

\* ------------------------------------------------------------- lookups
get_object_by_path(objs, path) ==
  IF path \in DOMAIN objs THEN objs[path].obj ELSE None

get_object_by_lvm_id(objs, idx, lvm_id) ==
  IF lvm_id \in DOMAIN idx THEN get_object_by_path(objs, idx[lvm_id]) ELSE None

\* '/', the path returned for an identifier that is not indexed: no
\* generator mints it.
RootPath == MaxPath + 1
get_object_path_by_lvm_id(idx, lvm_id) ==
  IF lvm_id \in DOMAIN idx THEN idx[lvm_id] ELSE RootPath

\* ------------------------------------------------------------- _id_lookup
Contains(s, c) == \E i \in 1..Len(s) : s[i] = c
StartsWith(s, c) == Len(s) > 0 /\ s[1] = c
\* Mutation: the split is on the last "/" (rsplit).
FirstIndex_last(s, c) == CHOOSE i \in 1..Len(s) : s[i] = c /\ \A j \in (i + 1)..Len(s) : s[j] # c
FirstIndex(s, c) == CHOOSE i \in 1..Len(s) : s[i] = c /\ \A j \in 1..(i - 1) : s[j] # c
\* vg, lv = the_id.split("/", 1); vg + "/" + ("[%s]" % lv)
HiddenForm(the_id) ==
  LET i == FirstIndex(the_id, "/")
      vg == SubSeq(the_id, 1, i - 1)
      lv == SubSeq(the_id, i + 1, Len(the_id))
  IN vg \o <<"/">> \o (<<"[">> \o lv \o <<"]">>)
\* os.path.realpath over the file system of the model: /s is a symbolic
\* link to /d, every other name is its own canonical form.
realpath(p) == IF p = DevLink THEN DevReal ELSE p

_id_lookup(idx, the_id) ==
  IF the_id = Empty THEN None
  ELSE IF the_id \in DOMAIN idx THEN idx[the_id]
  ELSE IF ~Contains(the_id, "/") THEN None
  ELSE IF StartsWith(the_id, "/")
       THEN LET canonical == realpath(the_id)
            IN IF canonical \in DOMAIN idx THEN idx[canonical] ELSE None
       ELSE LET int_lvm_id == HiddenForm(the_id)
            IN IF int_lvm_id \in DOMAIN idx THEN idx[int_lvm_id] ELSE None

\* ------------------------------------------------------------- _uuid_verify, _lvm_id_verify
_uuid_verify(objs, idx, path, uuid, lvm_id) ==
  IF lvm_id # uuid /\ uuid # Empty /\ uuid \notin DOMAIN idx
  THEN _lookup_add(objs, idx, get_object_by_path(objs, path), path, lvm_id, uuid)
  ELSE [objects |-> objs, ids |-> idx, raised |-> FALSE]

\* Mutation: an lvm_id indexed for another path is taken over.
_lvm_id_verify_overwrites(objs, idx, path, uuid, lvm_id) ==
  IF lvm_id # uuid /\ lvm_id # Empty
  THEN _lookup_add(objs, idx, get_object_by_path(objs, path), path, lvm_id, uuid)
  ELSE [objects |-> objs, ids |-> idx, raised |-> FALSE]

\* Mutation: the lvm_id is added to the index and the entry is left as it is.
_lvm_id_verify_additive(objs, idx, path, uuid, lvm_id) ==
  IF lvm_id # uuid /\ lvm_id # Empty /\ lvm_id \notin DOMAIN idx
  THEN [objects |-> objs, ids |-> Put(idx, lvm_id, path), raised |-> FALSE]
  ELSE [objects |-> objs, ids |-> idx, raised |-> FALSE]

_lvm_id_verify(objs, idx, path, uuid, lvm_id) ==
  IF lvm_id # uuid /\ lvm_id # Empty /\ lvm_id \notin DOMAIN idx
  THEN _lookup_add(objs, idx, get_object_by_path(objs, path), path, lvm_id, uuid)
  ELSE [objects |-> objs, ids |-> idx, raised |-> FALSE]

\* ------------------------------------------------------------- get_object_path_by_uuid_lvm_id
\* The result of the call: the registry after it, the path returned, whether
\* an assert failed, how many times path_create was called, and the branch
\* of lines 287-314 the call took.
Result(objs, idx, nxt, r, raised, minted, branch) ==
  [objects |-> objs, ids |-> idx, next_path |-> nxt, ret |-> r,
   raised |-> raised, minted |-> minted, branch |-> branch]

\* Line 303: what _lvm_id_verify finds for an entry resolved by uuid.
UuidBranch(idx, path, uuid, lvm_id) ==
  IF lvm_id = Empty THEN "uuid_only"
  ELSE IF lvm_id \notin DOMAIN idx THEN "uuid_adds_lvm_id"
  ELSE IF idx[lvm_id] = path THEN "uuid_agrees"
  ELSE "uuid_conflict"

\* Lines 313-314: path = path_create(), then the placeholder entry.
\* Mutation: the minted path is returned and never entered in the table.
path_create_unregistered(objs, idx, nxt, lvm_id, uuid) ==
  Result(objs, idx, nxt + 1, nxt + 1, FALSE, 1, "created")

\* Mutation: the placeholder is stored under its uuid alone.
path_create_and_add_uuid_only(objs, idx, nxt, lvm_id, uuid) ==
  LET path == nxt + 1
      a == _lookup_add(objs, idx, None, path, Empty, uuid)
  IN Result(a.objects, a.ids, path, path, a.raised, 1, "created")

path_create_and_add(objs, idx, nxt, lvm_id, uuid) ==
  LET path == nxt + 1
      a == _lookup_add(objs, idx, None, path, lvm_id, uuid)
  IN Result(a.objects, a.ids, path, path, a.raised, 1, "created")

\* Lines 287-288: a Manager.LookUpByLvmId query, looked up and nothing else.
\* Mutation: an identifier found through a fallback form is entered in the
\* index for the next time.
identity_lookup_caches(objs, idx, nxt, lvm_id) ==
  LET path == _id_lookup(idx, lvm_id)
  IN IF path # None /\ lvm_id \notin DOMAIN idx
     THEN Result(objs, Put(idx, lvm_id, path), nxt, path, FALSE, 0, "identity")
     ELSE Result(objs, idx, nxt, path, FALSE, 0, "identity")

identity_lookup(objs, idx, nxt, lvm_id) ==
  Result(objs, idx, nxt, _id_lookup(idx, lvm_id), FALSE, 0, "identity")

\* Lines 295-297: the device path of a missing PV, '[unknown]', becomes None.
\* Mutation: the re-assignment is left out.
unknown_to_none_left_out(path_create, lvm_id) == lvm_id

unknown_to_none(path_create, lvm_id) ==
  IF path_create = pv_obj_path_generate /\ lvm_id = Unknown THEN Empty ELSE lvm_id

get_object_path_by_uuid_lvm_id(objs, idx, nxt, uuid, lvm_id_in, path_create, gen_new) ==
  IF lvm_id_in = Empty \/ uuid = Empty
     \/ (gen_new /\ (path_create = NoGen \/ uuid = lvm_id_in))
  THEN Result(objs, idx, nxt, None, TRUE, 0, "assert")
  ELSE IF uuid = lvm_id_in
  THEN identity_lookup(objs, idx, nxt, lvm_id_in)
  ELSE
    LET lvm_id == unknown_to_none(path_create, lvm_id_in)
        by_uuid == _id_lookup(idx, uuid)
        by_lvm_id == _id_lookup(idx, lvm_id)
    IN IF by_uuid # None
       THEN LET v == _lvm_id_verify(objs, idx, by_uuid, uuid, lvm_id)
            IN Result(v.objects, v.ids, nxt, by_uuid, v.raised, 0,
                      UuidBranch(idx, by_uuid, uuid, lvm_id))
       ELSE IF by_lvm_id # None
       THEN LET v == _uuid_verify(objs, idx, by_lvm_id, uuid, lvm_id)
            IN Result(v.objects, v.ids, nxt, by_lvm_id, v.raised, 0, "lvm_id_adds_uuid")
       ELSE IF gen_new
       THEN path_create_and_add(objs, idx, nxt, lvm_id, uuid)
       ELSE Result(objs, idx, nxt, None, FALSE, 0, "absent")

\* The result of the inner call, with the object of the path it returned.
get_object_by_uuid_lvm_id(objs, idx, nxt, uuid, lvm_id) ==
  LET r == get_object_path_by_uuid_lvm_id(objs, idx, nxt, uuid, lvm_id, NoGen, FALSE)
  IN [r EXCEPT !.ret = get_object_by_path(r.objects, r.ret)]

\* ------------------------------------------------------------- signals
InterfacesAdded(path) == [signal |-> "InterfacesAdded", path |-> path]
InterfacesRemoved(path) == [signal |-> "InterfacesRemoved", path |-> path]

\* ------------------------------------------------------------- register_object
\* emits: the signals of line 146, reached only when _lookup_add returned.
register_object(objs, idx, dbus_object, lvm_id, uuid, emit_signal) ==
  LET path == dbus_object_path(dbus_object)
      a == _lookup_add(objs, idx, dbus_object, path, lvm_id, uuid)
  IN [objects |-> a.objects, ids |-> a.ids, raised |-> a.raised,
      emits |-> IF emit_signal /\ ~a.raised THEN <<InterfacesAdded(path)>> ELSE <<>>]

\* ------------------------------------------------------------- remove_object
remove_object(objs, idx, dbus_object, emit_signal) ==
  LET path == dbus_object_path(dbus_object)
      r == _lookup_remove(objs, idx, path)
  IN [objects |-> r.objects, ids |-> r.ids, raised |-> FALSE,
      emits |-> IF emit_signal THEN <<InterfacesRemoved(path)>> ELSE <<>>]

\* ------------------------------------------------------------- lookup_update
\* Mutation: the new identifiers are added and the old ones stay.
lookup_update_additive(objs, idx, dbus_obj, new_uuid, new_lvm_id) ==
  LET obj_path == dbus_object_path(dbus_obj)
      o2 == Put(objs, obj_path, [obj |-> dbus_obj, lvm_id |-> new_lvm_id, uuid |-> new_uuid])
      i1 == IF new_lvm_id # Empty THEN Put(idx, new_lvm_id, obj_path) ELSE idx
      i2 == IF new_uuid # Empty THEN Put(i1, new_uuid, obj_path) ELSE i1
  IN [objects |-> o2, ids |-> i2, raised |-> new_lvm_id = Empty /\ new_uuid = Empty]

lookup_update(objs, idx, dbus_obj, new_uuid, new_lvm_id) ==
  LET obj_path == dbus_object_path(dbus_obj)
      r == _lookup_remove(objs, idx, obj_path)
  IN _lookup_add(r.objects, r.ids, dbus_obj, obj_path, new_lvm_id, new_uuid)

\* ------------------------------------------------------------- GetManagedObjects
\* dbus_object.emit_data(): the object's path and its property bag.
emit_data(h) == [path |-> dbus_object_path(h), props |-> <<"props", h>>]

\* rc: the dictionary returned.  exited: the entry of a placeholder holds
\* None for its object, v[0].emit_data() raises, and the handler of lines
\* 44-46 ends the process with sys.exit(1).
GetManagedObjects(objs) ==
  IF \E k \in DOMAIN objs : objs[k].obj = None
  THEN [rc |-> EmptyDict, exited |-> TRUE]
  ELSE [rc |-> [p \in {emit_data(objs[k].obj).path : k \in DOMAIN objs} |->
                 emit_data(CHOOSE h \in {objs[k].obj : k \in DOMAIN objs} :
                             emit_data(h).path = p).props],
        exited |-> FALSE]

\* ------------------------------------------------------------- rlock
\* threading.RLock: free, or held count times by its owner.
Threads == 1..NumThreads
\* Mutation: a plain Lock, which its own holder cannot take again.
CanAcquire_not_reentrant(lock, t) == lock.count = 0
\* Mutation: no exclusion, any thread gets in.
CanAcquire_anyone(lock, t) == TRUE

\* acquire() returns: the lock is free or the caller holds it.
CanAcquire(lock, t) == lock.count = 0 \/ lock.owner = t
acquire(lock, t) == [owner |-> t, count |-> lock.count + 1]
release(lock) ==
  IF lock.count = 1 THEN [owner |-> None, count |-> 0]
  ELSE [owner |-> lock.owner, count |-> lock.count - 1]

\* What a thread has from its last call.
Return(op, r, raised) == [op |-> op, ret |-> r, raised |-> raised]
NoReturn == Return("none", None, FALSE)

NoCall == [op |-> "none", obj |-> None]
Call(op, obj) == [op |-> op, obj |-> obj]
Outcome(r, raised, minted, branch) ==
  [ret |-> r, raised |-> raised, minted |-> minted, branch |-> branch]
NoOutcome == Outcome(None, FALSE, 0, "none")

\* Two entries at different paths hold a common identifier.
IdsOf(e) == {e.lvm_id, e.uuid} \ {Empty}
SharesNow(objs) ==
  \E p \in DOMAIN objs : \E q \in DOMAIN objs :
     p # q /\ IdsOf(objs[p]) \cap IdsOf(objs[q]) # {}

\* What every call of the sequential specification records.
Record(call, outcome) ==
  /\ last' = call
  /\ out' = outcome
  /\ shared' = (shared \/ SharesNow(objects'))

LockFree == rlock.count = 0
\* The process has not ended (sys.exit, line 46).
Running == out.branch # "exit"
\* The dbus object was built on a path a generator has handed out.
Minted(dbus_object) == dbus_object_path(dbus_object) <= next_path

\* ------------------------------------------------------------- the calls of one caller
\* Each runs from its "with self.rlock:" to the end of the block.
RegisterObject(dbus_object, lvm_id, uuid, emit_signal) ==
  LET a == register_object(objects, id_to_object_path, dbus_object, lvm_id, uuid,
                           emit_signal)
  IN /\ LockFree /\ Running
     /\ Minted(dbus_object)
     /\ objects' = a.objects
     /\ id_to_object_path' = a.ids
     /\ signals' = a.emits
     /\ Record(Call("register_object", dbus_object),
               Outcome(None, a.raised, 0, "none"))
     /\ UNCHANGED <<next_path, threadvars>>

RemoveObject(dbus_object, emit_signal) ==
  LET r == remove_object(objects, id_to_object_path, dbus_object, emit_signal)
  IN /\ LockFree /\ Running
     /\ Minted(dbus_object)
     /\ objects' = r.objects
     /\ id_to_object_path' = r.ids
     /\ signals' = r.emits
     /\ Record(Call("remove_object", dbus_object), Outcome(None, FALSE, 0, "none"))
     /\ UNCHANGED <<next_path, threadvars>>

LookupUpdate(dbus_obj, new_uuid, new_lvm_id) ==
  LET a == lookup_update(objects, id_to_object_path, dbus_obj, new_uuid, new_lvm_id)
  IN /\ LockFree /\ Running
     /\ Minted(dbus_obj)
     /\ objects' = a.objects
     /\ id_to_object_path' = a.ids
     /\ signals' = <<>>
     /\ Record(Call("lookup_update", dbus_obj), Outcome(None, a.raised, 0, "none"))
     /\ UNCHANGED <<next_path, threadvars>>

GetObjectPathByUuidLvmId(uuid, lvm_id, path_create, gen_new) ==
  LET r == get_object_path_by_uuid_lvm_id(objects, id_to_object_path, next_path,
                                          uuid, lvm_id, path_create, gen_new)
  IN /\ LockFree /\ Running
     /\ r.minted > 0 => next_path < MaxPath
     /\ objects' = r.objects
     /\ id_to_object_path' = r.ids
     /\ next_path' = r.next_path
     /\ signals' = <<>>
     /\ Record(Call("get_object_path_by_uuid_lvm_id", None),
               Outcome(r.ret, r.raised, r.minted, r.branch))
     /\ UNCHANGED threadvars

\* out.ret: the number of pairs returned.
GetManagedObjectsCall ==
  LET r == GetManagedObjects(objects)
  IN /\ LockFree /\ Running
     /\ UNCHANGED <<regvars, threadvars>>
     /\ signals' = <<>>
     /\ Record(Call("GetManagedObjects", None),
               Outcome(Cardinality(DOMAIN r.rc), FALSE, 0,
                       IF r.exited THEN "exit" ELSE "none"))

\* ------------------------------------------------------------- the sequential specification
Init ==
  /\ objects = EmptyDict
  /\ id_to_object_path = EmptyDict
  /\ next_path = InitPaths
  /\ signals = <<>>
  /\ shared = FALSE
  /\ last = NoCall
  /\ out = NoOutcome
  /\ rlock = [owner |-> None, count |-> 0]
  /\ pc = [t \in Threads |-> "idle"]
  /\ guard = [t \in Threads |-> FALSE]
  /\ pending = [t \in Threads |-> <<>>]
  /\ tlast = [t \in Threads |-> NoReturn]

Next ==
  \/ \E h \in Handles, lvm_id \in HandleLvmIds, uuid \in HandleUuids, e \in BOOLEAN :
       RegisterObject(h, lvm_id, uuid, e)
  \/ \E h \in Handles, e \in BOOLEAN : RemoveObject(h, e)
  \/ \E h \in Handles, lvm_id \in HandleLvmIds, uuid \in HandleUuids :
       LookupUpdate(h, uuid, lvm_id)
  \/ \E uuid \in QueryUuids, lvm_id \in QueryLvmIds, m \in Modes :
       GetObjectPathByUuidLvmId(uuid, lvm_id, m[1], m[2])
  \/ \E id \in LookupIds : GetObjectPathByUuidLvmId(id, id, NoGen, FALSE)
  \/ \E c \in BadCalls : GetObjectPathByUuidLvmId(c[1], c[2], c[3], c[4])
  \/ GetManagedObjectsCall

Spec == Init /\ [][Next]_vars

\* ------------------------------------------------------------- threads
\* A thread calls a method (Enter), blocks on its "with self.rlock:"
\* (Acquire), runs the body under the lock, emits the signal of the call if
\* there is one (Emit) and leaves the with block (Release); an
\* AssertionError in the body leaves the with block at once.  A thread may
\* bracket calls with "with om.locked():" (Locked, Unlocked).
\* Thread t works on the dbus object t, whose identifiers are its own.
ToChar(t) == ToString(t)
ThreadUuid(t) == <<"u", ToChar(t)>>
ThreadLvmId(t) == <<"v", "/", ToChar(t)>>
\* The asset every thread asks a path for.
AssetUuid == U2
AssetLvmId == VgLv

Locked(t) ==
  /\ pc[t] = "idle" /\ ~guard[t]
  /\ CanAcquire(rlock, t)
  /\ rlock' = acquire(rlock, t)
  /\ guard' = [guard EXCEPT ![t] = TRUE]
  /\ UNCHANGED <<regvars, signals, shared, last, out, pc, pending, tlast>>

Unlocked(t) ==
  /\ pc[t] = "idle" /\ guard[t]
  /\ rlock' = release(rlock)
  /\ guard' = [guard EXCEPT ![t] = FALSE]
  /\ UNCHANGED <<regvars, signals, shared, last, out, pc, pending, tlast>>

Enter(t) ==
  /\ pc[t] = "idle"
  /\ pc' = [pc EXCEPT ![t] = "wait"]
  /\ UNCHANGED <<regvars, signals, shared, last, out, rlock, guard, pending, tlast>>

Acquire(t) ==
  /\ pc[t] = "wait"
  /\ CanAcquire(rlock, t)
  /\ rlock' = acquire(rlock, t)
  /\ pc' = [pc EXCEPT ![t] = "locked"]
  /\ UNCHANGED <<regvars, signals, shared, last, out, guard, pending, tlast>>

\* The end of a body: on to the signal, or out of the with block.
Body(t, objs, idx, nxt, op, r, raised, emits) ==
  /\ objects' = objs
  /\ id_to_object_path' = idx
  /\ next_path' = nxt
  /\ shared' = (shared \/ SharesNow(objs))
  /\ signals' = <<>>
  /\ pending' = [pending EXCEPT ![t] = emits]
  /\ pc' = [pc EXCEPT ![t] = IF emits # <<>> THEN "emit" ELSE "exit"]
  /\ tlast' = [tlast EXCEPT ![t] = Return(op, r, raised)]
  /\ UNCHANGED <<last, out, rlock, guard>>

\* Mutation: the signal is emitted after the with block (one indent less).
TRegister_emits_unlocked(t, emit_signal) ==
  LET a == register_object(objects, id_to_object_path, t, ThreadLvmId(t),
                           ThreadUuid(t), emit_signal)
  IN /\ pc[t] = "locked"
     /\ Minted(t)
     /\ objects' = a.objects
     /\ id_to_object_path' = a.ids
     /\ shared' = (shared \/ SharesNow(a.objects))
     /\ signals' = <<>>
     /\ pending' = [pending EXCEPT ![t] = a.emits]
     /\ pc' = [pc EXCEPT ![t] = IF a.emits # <<>> THEN "emit" ELSE "idle"]
     /\ rlock' = release(rlock)
     /\ tlast' = [tlast EXCEPT ![t] = Return("register_object", None, a.raised)]
     /\ UNCHANGED <<next_path, last, out, guard>>

TRegister(t, emit_signal) ==
  LET a == register_object(objects, id_to_object_path, t, ThreadLvmId(t),
                           ThreadUuid(t), emit_signal)
  IN /\ pc[t] = "locked"
     /\ Minted(t)
     /\ Body(t, a.objects, a.ids, next_path, "register_object", None, a.raised, a.emits)

\* register_object of an object that has neither identifier: the assert fails.
TRegisterNoIds(t, emit_signal) ==
  LET a == register_object(objects, id_to_object_path, t, Empty, Empty, emit_signal)
  IN /\ pc[t] = "locked"
     /\ Minted(t)
     /\ Body(t, a.objects, a.ids, next_path, "register_object", None, a.raised, a.emits)

TRemove(t, emit_signal) ==
  LET r == remove_object(objects, id_to_object_path, t, emit_signal)
  IN /\ pc[t] = "locked"
     /\ Minted(t)
     /\ Body(t, r.objects, r.ids, next_path, "remove_object", None, FALSE, r.emits)

TResolve(t) ==
  LET r == get_object_path_by_uuid_lvm_id(objects, id_to_object_path, next_path,
                                          AssetUuid, AssetLvmId, OtherGen, TRUE)
  IN /\ pc[t] = "locked"
     /\ r.minted > 0 => next_path < MaxPath
     /\ Body(t, r.objects, r.ids, r.next_path, "get_object_path_by_uuid_lvm_id",
             r.ret, r.raised, <<>>)

\* The same call in two steps under the lock: the lookups and the
\* reconciliation of lines 278-309, then, when both lookups found nothing,
\* lines 312-314 (the thread is at "create" in between).
TResolveFind(t) ==
  LET r == get_object_path_by_uuid_lvm_id(objects, id_to_object_path, next_path,
                                          AssetUuid, AssetLvmId, OtherGen, TRUE)
  IN /\ pc[t] = "locked"
     /\ IF r.branch = "created"
        THEN /\ pc' = [pc EXCEPT ![t] = "create"]
             /\ UNCHANGED <<regvars, signals, shared, last, out, rlock, guard,
                            pending, tlast>>
        ELSE Body(t, r.objects, r.ids, r.next_path, "get_object_path_by_uuid_lvm_id",
                  r.ret, r.raised, <<>>)

TResolveCreate(t) ==
  LET c == path_create_and_add(objects, id_to_object_path, next_path,
                               AssetLvmId, AssetUuid)
  IN /\ pc[t] = "create"
     /\ next_path < MaxPath
     /\ Body(t, c.objects, c.ids, c.next_path, "get_object_path_by_uuid_lvm_id",
             c.ret, c.raised, <<>>)

\* get_object_by_uuid_lvm_id takes the lock it already holds twice more
\* (lines 185-186) and gives both back before it returns.
TLookup(t) ==
  LET r == get_object_by_uuid_lvm_id(objects, id_to_object_path, next_path,
                                     ThreadUuid(t), ThreadLvmId(t))
  IN /\ pc[t] = "locked"
     /\ CanAcquire(rlock, t)
     /\ Body(t, r.objects, r.ids, r.next_path, "get_object_by_uuid_lvm_id",
             r.ret, r.raised, <<>>)

Emit(t) ==
  /\ pc[t] = "emit"
  /\ signals' = pending[t]
  /\ pending' = [pending EXCEPT ![t] = <<>>]
  /\ pc' = [pc EXCEPT ![t] = "exit"]
  /\ UNCHANGED <<regvars, shared, last, out, rlock, guard, tlast>>

Release(t) ==
  /\ pc[t] = "exit"
  /\ rlock' = release(rlock)
  /\ pc' = [pc EXCEPT ![t] = "idle"]
  /\ UNCHANGED <<regvars, signals, shared, last, out, guard, pending, tlast>>

\* ------------------------------------------------------------- the concurrent specifications
\* Every thread's object is built (its path minted) beforehand.
InitRegRemove ==
  /\ objects = EmptyDict
  /\ id_to_object_path = EmptyDict
  /\ next_path = MaxPath
  /\ signals = <<>>
  /\ shared = FALSE
  /\ last = NoCall
  /\ out = NoOutcome
  /\ rlock = [owner |-> None, count |-> 0]
  /\ pc = [t \in Threads |-> "idle"]
  /\ guard = [t \in Threads |-> FALSE]
  /\ pending = [t \in Threads |-> <<>>]
  /\ tlast = [t \in Threads |-> NoReturn]

\* Threads that register and remove their own objects.
NextRegRemove ==
  \E t \in Threads :
    \/ Enter(t)
    \/ Acquire(t)
    \/ \E e \in BOOLEAN : TRegister(t, e)
    \/ \E e \in BOOLEAN : TRemove(t, e)
    \/ Emit(t)
    \/ Release(t)

SpecRegRemove == InitRegRemove /\ [][NextRegRemove]_vars

\* One caller that registers and removes objects known by name only and
\* asks for names (Manager.LookUpByLvmId).
NextIdLookup ==
  \/ \E h \in Handles, lvm_id \in NameLvmIds : RegisterObject(h, lvm_id, Empty, FALSE)
  \/ \E h \in Handles : RemoveObject(h, FALSE)
  \/ \E id \in NameQueries : GetObjectPathByUuidLvmId(id, id, NoGen, FALSE)

SpecIdLookup == InitRegRemove /\ [][NextIdLookup]_vars

\* No path is minted yet and the registry is empty.
InitResolve ==
  /\ objects = EmptyDict
  /\ id_to_object_path = EmptyDict
  /\ next_path = 0
  /\ signals = <<>>
  /\ shared = FALSE
  /\ last = NoCall
  /\ out = NoOutcome
  /\ rlock = [owner |-> None, count |-> 0]
  /\ pc = [t \in Threads |-> "idle"]
  /\ guard = [t \in Threads |-> FALSE]
  /\ pending = [t \in Threads |-> <<>>]
  /\ tlast = [t \in Threads |-> NoReturn]

\* Threads that all ask a path for the same asset, creating it if need be,
\* bracketed by locked() or not.
NextResolve ==
  \E t \in Threads :
    \/ Locked(t)
    \/ Unlocked(t)
    \/ Enter(t)
    \/ Acquire(t)
    \/ TResolveFind(t)
    \/ TResolveCreate(t)
    \/ Release(t)

SpecResolve == InitResolve /\ [][NextResolve]_vars

\* Threads that make every kind of call, bracketed or not.
NextThreads ==
  \E t \in Threads :
    \/ Locked(t)
    \/ Unlocked(t)
    \/ Enter(t)
    \/ Acquire(t)
    \/ \E e \in BOOLEAN : TRegister(t, e)
    \/ \E e \in BOOLEAN : TRegisterNoIds(t, e)
    \/ \E e \in BOOLEAN : TRemove(t, e)
    \/ TResolve(t)
    \/ TLookup(t)
    \/ Emit(t)
    \/ Release(t)

SpecThreads == Init /\ [][NextThreads]_vars

\* Threads that take the lock in every way: under locked(), in calls that
\* return, in a call that raises, and in a call that takes it again inside.
NextLock ==
  \E t \in Threads :
    \/ Locked(t)
    \/ Unlocked(t)
    \/ Enter(t)
    \/ Acquire(t)
    \/ \E e \in BOOLEAN : TRegisterNoIds(t, e)
    \/ \E e \in BOOLEAN : TRemove(t, e)
    \/ TLookup(t)
    \/ Emit(t)
    \/ Release(t)

\* The scheduler is fair: a thread that can take a step takes one, a thread
\* blocked on the lock gets it if it is free again and again, and a
\* "with om.locked():" block comes to its end.
Fairness ==
  \A t \in Threads :
    /\ SF_vars(Acquire(t))
    /\ SF_vars(Unlocked(t))
    /\ WF_vars(Emit(t))
    /\ WF_vars(Release(t))
    /\ WF_vars(\/ \E e \in BOOLEAN : TRegisterNoIds(t, e)
               \/ \E e \in BOOLEAN : TRemove(t, e)
               \/ TLookup(t))

SpecLockFair == InitRegRemove /\ [][NextLock]_vars /\ Fairness

\* ============================================================= properties
Size(objs) == Cardinality(DOMAIN objs)

\* C1: every value of the identifier index is a path that is a key of the
\* entry table: the index holds no dangling entry, whatever identifiers the
\* calls used, shared between entries or not.
NoDanglingIndex ==
  \A k \in DOMAIN id_to_object_path : id_to_object_path[k] \in DOMAIN objects

\* An entry was removed while another entry held one of its identifiers, and
\* the index still has keys.
NoDanglingIndexWitness ==
  /\ last.op = "remove_object"
  /\ DOMAIN id_to_object_path # {}
  /\ \E p \in DOMAIN objects :
       objects[p].uuid # Empty /\ objects[p].uuid \notin DOMAIN id_to_object_path

\* C2: for every entry whose uuid (stable_id) and lvm_id (display_id) are
\* both non-empty and distinct, the index contains both identifiers and both
\* map to that entry's path (invariant I4).
IndexHoldsBothIds ==
  \A p \in DOMAIN objects :
    LET e == objects[p]
    IN (e.uuid # Empty /\ e.lvm_id # Empty /\ e.uuid # e.lvm_id)
       => /\ e.uuid \in DOMAIN id_to_object_path
          /\ e.lvm_id \in DOMAIN id_to_object_path
          /\ id_to_object_path[e.uuid] = p
          /\ id_to_object_path[e.lvm_id] = p

\* C2 as it holds: I4, after every sequence of calls none of which stored
\* for a path an identifier that the entry of another path held.
IndexHoldsBothIdsUnlessShared == ~shared => IndexHoldsBothIds

\* Two entries, each with a uuid and an lvm_id, the last of them completed
\* by a reconciliation, and no identifier was ever shared.
IndexHoldsBothIdsWitness ==
  /\ ~shared
  /\ Size(objects) = 2
  /\ out.branch = "uuid_adds_lvm_id"
  /\ \A p \in DOMAIN objects :
       /\ objects[p].uuid # Empty
       /\ objects[p].lvm_id # Empty
       /\ objects[p].uuid # objects[p].lvm_id

\* C3: every entry of the entry table has at least one of uuid, lvm_id
\* non-empty (invariant I1), also after a call that failed its assertion.
EveryEntryHasAnId ==
  \A p \in DOMAIN objects : objects[p].uuid # Empty \/ objects[p].lvm_id # Empty

\* C4: threads that register and remove objects of pairwise disjoint paths
\* and identifiers: whenever no call is in progress, the entry table holds
\* exactly the paths whose last call was register_object, and the index holds
\* exactly the identifiers of those entries, each mapped to its entry's path.
Quiescent == \A t \in Threads : pc[t] = "idle"
Survivors == {t \in Threads : tlast[t].op = "register_object"}
RegRemoveSurvivors ==
  Quiescent =>
    /\ DOMAIN objects = {dbus_object_path(t) : t \in Survivors}
    /\ DOMAIN id_to_object_path = UNION {{ThreadUuid(t), ThreadLvmId(t)} : t \in Survivors}
    /\ \A t \in Survivors :
         /\ objects[dbus_object_path(t)] =
              [obj |-> t, lvm_id |-> ThreadLvmId(t), uuid |-> ThreadUuid(t)]
         /\ id_to_object_path[ThreadUuid(t)] = dbus_object_path(t)
         /\ id_to_object_path[ThreadLvmId(t)] = dbus_object_path(t)

\* No call is in progress; one object survives and another was just
\* removed, with its signal.
RegRemoveSurvivorsWitness ==
  /\ Quiescent
  /\ Survivors # {}
  /\ \E t \in Threads :
       /\ tlast[t].op = "remove_object"
       /\ signals = <<InterfacesRemoved(dbus_object_path(t))>>

\* C5: at most one thread is inside a section that reads or changes the
\* table or the index: while a thread holds the lock, through locked() or
\* inside a call, it is the owner of rlock, no other thread is inside, and
\* the next step neither lets another thread past its "with self.rlock:"
\* nor returns a result to one, nor changes the registry on another
\* thread's behalf.
InCall(t) == pc[t] \in {"locked", "create", "emit", "exit"}
Holds(t) == guard[t] \/ InCall(t)
OneThreadInside ==
  [][\A t \in Threads :
       Holds(t) =>
         /\ rlock.owner = t /\ rlock.count > 0
         /\ \A u \in Threads \ {t} :
              /\ ~Holds(u)
              /\ pc'[u] \in {"idle", "wait"}
              /\ ~guard'[u]
              /\ tlast'[u] = tlast[u]
         /\ (regvars' # regvars => pc[t] = "locked")]_vars

\* A thread is inside a call it made under locked(), and another thread is
\* blocked on the lock.
OneThreadInsideWitness ==
  \E t \in Threads : \E u \in Threads \ {t} :
    /\ guard[t] /\ pc[t] = "locked" /\ rlock.count = 2
    /\ pc[u] = "wait"

\* C6: from the change of the table to the signal of the call, the calling
\* thread holds the lock without a break: while the signal is pending the
\* table shows the change (the object is registered for InterfacesAdded,
\* gone for InterfacesRemoved), no step changes the table or the index or
\* lets another thread into or out of a call, and the thread's next step
\* emits the signal with the lock still held.
SignalShowsChange(sig, t) ==
  IF sig.signal = "InterfacesAdded"
  THEN get_object_by_path(objects, sig.path) = t
  ELSE sig.path \notin DOMAIN objects
SignalUnderLock ==
  [][\A t \in Threads :
       pc[t] = "emit" =>
         /\ rlock.owner = t /\ rlock.count > 0
         /\ pending[t] # <<>> /\ SignalShowsChange(pending[t][1], t)
         /\ objects' = objects /\ id_to_object_path' = id_to_object_path
         /\ \A u \in Threads \ {t} :
              pc[u] \in {"idle", "wait"} /\ pc'[u] \in {"idle", "wait"}
         /\ (pc'[t] # "emit" => signals' = pending[t] /\ rlock' = rlock)]_vars

\* A removal is made and its signal not yet emitted, while another thread
\* waits for the lock.
SignalUnderLockWitness ==
  \E t \in Threads : \E u \in Threads \ {t} :
    /\ pc[t] = "emit"
    /\ pending[t] = <<InterfacesRemoved(dbus_object_path(t))>>
    /\ pc[u] = "wait"

\* C7: the lock is reentrant and always released: a thread that holds it can
\* take it again at once; a thread that is in no call and under no locked()
\* does not own it, whether its last call returned or raised, and the lock
\* is free when no thread is inside; and under fair scheduling every thread
\* waiting for the lock gets it.
NoThreadBlocksItself ==
  \A t \in Threads : (pc[t] = "wait" /\ rlock.owner = t) => ENABLED Acquire(t)
ReleasedOutside ==
  /\ \A t \in Threads : ~Holds(t) => rlock.owner # t
  /\ (\A t \in Threads : ~Holds(t)) => rlock = [owner |-> None, count |-> 0]
ReentrantAndReleased ==
  /\ [](NoThreadBlocksItself /\ ReleasedOutside)
  /\ \A t \in Threads : (pc[t] = "wait") ~> (pc[t] = "locked")

\* A call made under locked() has raised its AssertionError and is leaving
\* its with block, the lock held twice, while another thread waits.
ReentrantAndReleasedWitness ==
  \E t \in Threads : \E u \in Threads \ {t} :
    /\ guard[t] /\ pc[t] = "exit" /\ tlast[t].raised /\ rlock.count = 2
    /\ pc[u] = "wait"

\* C8: from every reachable state, two calls of get_object_path_by_uuid_lvm_id
\* in succession with the same uuid, lvm_id and path_create and gen_new = True
\* return the same path, call path_create at most once between them, and
\* leave at most one entry more than there was before the first.
ResolveTwiceSamePath ==
  \A uuid \in LookupIds : \A lvm_id \in LookupIds :
    \A c \in {pv_obj_path_generate, OtherGen} :
      uuid # lvm_id =>
        LET r1 == get_object_path_by_uuid_lvm_id(objects, id_to_object_path, next_path,
                                                 uuid, lvm_id, c, TRUE)
            r2 == get_object_path_by_uuid_lvm_id(r1.objects, r1.ids, r1.next_path,
                                                 uuid, lvm_id, c, TRUE)
        IN /\ r1.ret # None
           /\ r2.ret = r1.ret
           /\ r1.minted + r2.minted <= 1
           /\ Size(r2.objects) <= Size(objects) + 1

\* The first call has just created a placeholder, and the same call made
\* again from here finds it.
ResolveTwiceWitness ==
  /\ last.op = "get_object_path_by_uuid_lvm_id"
  /\ out.branch = "created"
  /\ out.ret \in DOMAIN objects
  /\ LET e == objects[out.ret]
         r2 == get_object_path_by_uuid_lvm_id(objects, id_to_object_path, next_path,
                                              e.uuid, e.lvm_id, OtherGen, TRUE)
     IN e.lvm_id # Empty /\ r2.ret = out.ret /\ r2.minted = 0

\* C9: right after register_object(h), h having an identifier,
\* get_object_by_path(h's path) is h; right after remove_object(h) it is None
\* and no identifier of the index maps to h's path.
RegisterRemoveThenLookup ==
  /\ (last.op = "register_object" /\ ~out.raised)
       => get_object_by_path(objects, dbus_object_path(last.obj)) = last.obj
  /\ last.op = "remove_object"
       => /\ get_object_by_path(objects, dbus_object_path(last.obj)) = None
          /\ \A k \in DOMAIN id_to_object_path :
               id_to_object_path[k] # dbus_object_path(last.obj)

\* An object was removed while another entry stays registered and indexed.
RegisterRemoveWitness ==
  /\ last.op = "remove_object"
  /\ \E p \in DOMAIN objects : objects[p].obj # None
  /\ DOMAIN id_to_object_path # {}

\* C10: when uuid resolves to a path P and lvm_id is in the index for another
\* path Q, the call returns P and changes neither the index (lvm_id still
\* maps to Q) nor the entry table.  (The mirrored case, an entry found by
\* lvm_id while uuid is indexed elsewhere, cannot arise: an indexed uuid is
\* found first, at line 300.)
ConflictingLvmIdLeftAlone ==
  \A uuid \in LookupIds : \A lvm_id \in LookupIds : \A m \in Modes :
    LET P == _id_lookup(id_to_object_path, uuid)
        r == get_object_path_by_uuid_lvm_id(objects, id_to_object_path, next_path,
                                            uuid, lvm_id, m[1], m[2])
    IN (/\ uuid # lvm_id
        /\ P # None
        /\ lvm_id \in DOMAIN id_to_object_path
        /\ id_to_object_path[lvm_id] # P)
       => /\ r.ret = P
          /\ r.ids = id_to_object_path
          /\ r.objects = objects
          /\ r.next_path = next_path

\* Such a call was made: it resolved by uuid and found lvm_id elsewhere.
ConflictingLvmIdWitness ==
  /\ last.op = "get_object_path_by_uuid_lvm_id"
  /\ out.branch = "uuid_conflict"
  /\ out.ret \in DOMAIN objects
  /\ \E k \in DOMAIN id_to_object_path : id_to_object_path[k] # out.ret

\* C11: a query with uuid == lvm_id and gen_new = False leaves the entry
\* table and the index as they were, whether the identifier is indexed,
\* found through a fallback form, or not found, and returns what _id_lookup
\* finds.
IdentityQueryChangesNothing ==
  \A id \in LookupIds : \A c \in {NoGen, pv_obj_path_generate, OtherGen} :
    LET r == get_object_path_by_uuid_lvm_id(objects, id_to_object_path, next_path,
                                            id, id, c, FALSE)
    IN /\ ~r.raised
       /\ r.objects = objects
       /\ r.ids = id_to_object_path
       /\ r.next_path = next_path
       /\ r.ret = _id_lookup(id_to_object_path, id)

\* Such a query was just made and resolved an identifier that is not a key
\* of the index, through a fallback form.
IdentityQueryWitness ==
  /\ last.op = "get_object_path_by_uuid_lvm_id"
  /\ out.branch = "identity"
  /\ out.ret \in DOMAIN objects
  /\ \E id \in LookupIds :
       id \notin DOMAIN id_to_object_path /\ _id_lookup(id_to_object_path, id) = out.ret

\* C14: a call of GetManagedObjects returns one pair for every entry of the
\* table, in every reachable state, placeholders included.
EnumerateVisitsEveryEntry ==
  last.op = "GetManagedObjects" => (out.branch # "exit" /\ out.ret = Size(objects))

\* C12: with pv_obj_path_generate and lvm_id == '[unknown]' the call does what
\* it would do without an lvm_id: it returns the path the uuid resolves to
\* when there is one and changes nothing; it never adds (or moves) a
\* '[unknown]' key; and the placeholder it creates holds the uuid only and
\* is indexed by the uuid only.
UnknownLvmIdIsNoLvmId ==
  \A uuid \in QueryUuids : \A gen_new \in BOOLEAN :
    LET P == _id_lookup(id_to_object_path, uuid)
        r == get_object_path_by_uuid_lvm_id(objects, id_to_object_path, next_path,
                                            uuid, Unknown, pv_obj_path_generate, gen_new)
        new == next_path + 1
    IN /\ ~r.raised
       /\ (Unknown \in DOMAIN r.ids) <=> (Unknown \in DOMAIN id_to_object_path)
       /\ Unknown \in DOMAIN r.ids => r.ids[Unknown] = id_to_object_path[Unknown]
       /\ (P # None \/ ~gen_new)
            => /\ r.ret = P
               /\ r.minted = 0
               /\ r.ids = id_to_object_path
               /\ r.objects = objects
       /\ (P = None /\ gen_new)
            => /\ r.ret = new
               /\ r.minted = 1
               /\ r.objects = Put(objects, new, [obj |-> None, lvm_id |-> Empty, uuid |-> uuid])
               /\ r.ids = Put(id_to_object_path, uuid, new)

\* A placeholder was just created for a uuid alone, while the object of a
\* missing PV is registered under '[unknown]' at another path.
UnknownLvmIdWitness ==
  /\ last.op = "get_object_path_by_uuid_lvm_id"
  /\ out.branch = "created"
  /\ out.ret \in DOMAIN objects
  /\ objects[out.ret].obj = None
  /\ objects[out.ret].lvm_id = Empty
  /\ objects[out.ret].uuid \in DOMAIN id_to_object_path
  /\ Unknown \in DOMAIN id_to_object_path
  /\ id_to_object_path[Unknown] # out.ret

\* C13: for a name "C/N" that does not start with "/": when it is a key of
\* the index _id_lookup returns its path; when it is not and "C/[N]" (split
\* on the first "/") is, the path of "C/[N]"; when neither is, None.
HiddenChildFallback ==
  \A pr \in {<<VgLv, VgHiddenLv>>, <<VgSubLv, VgHiddenSubLv>>} :
    _id_lookup(id_to_object_path, pr[1]) =
      IF pr[1] \in DOMAIN id_to_object_path THEN id_to_object_path[pr[1]]
      ELSE IF pr[2] \in DOMAIN id_to_object_path THEN id_to_object_path[pr[2]]
      ELSE None

\* A name with two "/" was just asked about and found under its hidden
\* form, while another object is registered under a name of its own.
HiddenChildFallbackWitness ==
  /\ last.op = "get_object_path_by_uuid_lvm_id"
  /\ out.branch = "identity"
  /\ VgSubLv \notin DOMAIN id_to_object_path
  /\ VgHiddenSubLv \in DOMAIN id_to_object_path
  /\ out.ret = id_to_object_path[VgHiddenSubLv]
  /\ \E k \in DOMAIN id_to_object_path : id_to_object_path[k] # out.ret

\* C15: when the entry is found by uuid and lvm_id is not indexed, or found
\* by lvm_id and uuid is not indexed, the call adds the missing mapping and
\* every mapping the index had before the call is still there, to the same
\* path.
ReconciliationIsAdditive ==
  \A uuid \in LookupIds : \A lvm_id \in LookupIds : \A m \in Modes :
    LET r == get_object_path_by_uuid_lvm_id(objects, id_to_object_path, next_path,
                                            uuid, lvm_id, m[1], m[2])
    IN (uuid # lvm_id /\ r.branch \in {"uuid_adds_lvm_id", "lvm_id_adds_uuid"})
       => /\ uuid \in DOMAIN r.ids /\ r.ids[uuid] = r.ret
          /\ lvm_id \in DOMAIN r.ids /\ r.ids[lvm_id] = r.ret
          /\ \A k \in DOMAIN id_to_object_path :
               k \in DOMAIN r.ids /\ r.ids[k] = id_to_object_path[k]

\* C15 as it holds: in those cases the entry found takes the identifiers of
\* the call and both map to its path; the identifiers the entry held before
\* that are not the call's leave the index; every other mapping of the
\* index is still there, to the same path.
ReconciliationReplacesOwnIds ==
  \A uuid \in LookupIds : \A lvm_id \in LookupIds : \A m \in Modes :
    LET r == get_object_path_by_uuid_lvm_id(objects, id_to_object_path, next_path,
                                            uuid, lvm_id, m[1], m[2])
        P == r.ret
        old == IF P \in DOMAIN objects THEN IdsOf(objects[P]) ELSE {}
    IN (uuid # lvm_id /\ r.branch \in {"uuid_adds_lvm_id", "lvm_id_adds_uuid"})
       => /\ uuid \in DOMAIN r.ids /\ r.ids[uuid] = P
          /\ lvm_id \in DOMAIN r.ids /\ r.ids[lvm_id] = P
          /\ r.objects = Put(objects, P, [obj |-> get_object_by_path(objects, P),
                                          lvm_id |-> lvm_id, uuid |-> uuid])
          /\ \A k \in DOMAIN id_to_object_path \ old :
               k \in DOMAIN r.ids /\ r.ids[k] = id_to_object_path[k]
          /\ \A k \in old \ {uuid, lvm_id} : k \notin DOMAIN r.ids

\* A registered object was just found by one identifier and given the
\* other, and another entry is indexed beside it.
ReconciliationWitness ==
  /\ last.op = "get_object_path_by_uuid_lvm_id"
  /\ out.branch \in {"uuid_adds_lvm_id", "lvm_id_adds_uuid"}
  /\ out.ret \in DOMAIN objects
  /\ objects[out.ret].obj # None
  /\ \A k \in IdsOf(objects[out.ret]) :
       k \in DOMAIN id_to_object_path /\ id_to_object_path[k] = out.ret
  /\ \E k \in DOMAIN id_to_object_path : id_to_object_path[k] # out.ret

\* C16: with gen_new = True and distinct non-empty uuid and lvm_id: when
\* neither resolves, path_create is called once, an entry with no object is
\* stored at the path it returned, uuid and lvm_id are both indexed to it,
\* and it is returned; when either resolves, path_create is not called and
\* no entry is added.
CreatesWhenNeitherResolves ==
  \A uuid \in LookupIds : \A lvm_id \in LookupIds :
    \A c \in {pv_obj_path_generate, OtherGen} :
      uuid # lvm_id =>
        LET r == get_object_path_by_uuid_lvm_id(objects, id_to_object_path, next_path,
                                                uuid, lvm_id, c, TRUE)
            new == next_path + 1
        IN IF /\ _id_lookup(id_to_object_path, uuid) = None
              /\ _id_lookup(id_to_object_path, lvm_id) = None
           THEN /\ r.minted = 1
                /\ r.ret = new
                /\ r.objects = Put(objects, new,
                                   [obj |-> None, lvm_id |-> lvm_id, uuid |-> uuid])
                /\ r.ids = Put(Put(id_to_object_path, lvm_id, new), uuid, new)
           ELSE /\ r.minted = 0
                /\ DOMAIN r.objects = DOMAIN objects

\* C16 as it holds: the same, with lvm_id taken as absent when it is
\* '[unknown]' and path_create is pv_obj_path_generate: it is then neither
\* looked up nor stored nor indexed.
CreatesWhenNeitherResolvesButUnknown ==
  \A uuid \in LookupIds : \A lvm_id_in \in LookupIds :
    \A c \in {pv_obj_path_generate, OtherGen} :
      uuid # lvm_id_in =>
        LET r == get_object_path_by_uuid_lvm_id(objects, id_to_object_path, next_path,
                                                uuid, lvm_id_in, c, TRUE)
            new == next_path + 1
            absent == c = pv_obj_path_generate /\ lvm_id_in = Unknown
            lvm_id == IF absent THEN Empty ELSE lvm_id_in
        IN IF /\ _id_lookup(id_to_object_path, uuid) = None
              /\ (absent \/ _id_lookup(id_to_object_path, lvm_id) = None)
           THEN /\ r.minted = 1
                /\ r.ret = new
                /\ r.objects = Put(objects, new,
                                   [obj |-> None, lvm_id |-> lvm_id, uuid |-> uuid])
                /\ r.ids = IF absent THEN Put(id_to_object_path, uuid, new)
                           ELSE Put(Put(id_to_object_path, lvm_id, new), uuid, new)
           ELSE /\ r.minted = 0
                /\ DOMAIN r.objects = DOMAIN objects

\* A placeholder was just created beside another entry, one path_create call,
\* both identifiers indexed to it.
CreatesWitness ==
  /\ last.op = "get_object_path_by_uuid_lvm_id"
  /\ out.branch = "created"
  /\ out.minted = 1
  /\ out.ret = next_path
  /\ Size(objects) = 2
  /\ objects[out.ret].obj = None
  /\ objects[out.ret].lvm_id # Empty
  /\ objects[out.ret].lvm_id # objects[out.ret].uuid
  /\ \A k \in IdsOf(objects[out.ret]) :
       k \in DOMAIN id_to_object_path /\ id_to_object_path[k] = out.ret

\* C17: lookup_update is a full replace: after the call the entry at the
\* object's path holds the object with exactly the new identifiers, the
\* index maps each non-empty new identifier to that path, and no other
\* identifier maps to that path.
UpdateIsFullReplace ==
  \A h \in Handles : \A new_uuid \in HandleUuids : \A new_lvm_id \in HandleLvmIds :
    LET P == dbus_object_path(h)
        a == lookup_update(objects, id_to_object_path, h, new_uuid, new_lvm_id)
    IN ~a.raised
       => /\ P \in DOMAIN a.objects
          /\ a.objects[P] = [obj |-> h, lvm_id |-> new_lvm_id, uuid |-> new_uuid]
          /\ \A k \in {new_uuid, new_lvm_id} \ {Empty} :
               k \in DOMAIN a.ids /\ a.ids[k] = P
          /\ \A k \in DOMAIN a.ids : a.ids[k] = P => k \in {new_uuid, new_lvm_id}

\* An object was just updated to a uuid and an lvm_id, beside another
\* indexed entry, and only those two map to its path.
UpdateIsFullReplaceWitness ==
  /\ last.op = "lookup_update"
  /\ ~out.raised
  /\ dbus_object_path(last.obj) \in DOMAIN objects
  /\ LET P == dbus_object_path(last.obj)
     IN /\ objects[P].obj = last.obj
        /\ objects[P].uuid # Empty /\ objects[P].lvm_id # Empty
        /\ {k \in DOMAIN id_to_object_path : id_to_object_path[k] = P}
             = {objects[P].uuid, objects[P].lvm_id}
        /\ \E k \in DOMAIN id_to_object_path : id_to_object_path[k] # P

\* C18: an operation that purges the entry at path P (remove_object,
\* register_object or lookup_update over an entry, a reconciliation) leaves
\* every identifier that mapped to another path Q mapped to Q, also when the
\* entries at P and Q hold a common identifier.  (Identifiers the operation
\* itself stores for P are left out of the comparison.)
PurgeLeavesOthersAlone ==
  /\ \A h \in Handles :
       LET P == dbus_object_path(h)
           r == remove_object(objects, id_to_object_path, h, FALSE)
       IN \A k \in DOMAIN id_to_object_path :
            id_to_object_path[k] # P
              => k \in DOMAIN r.ids /\ r.ids[k] = id_to_object_path[k]
  /\ \A h \in Handles : \A uuid \in HandleUuids : \A lvm_id \in HandleLvmIds :
       LET P == dbus_object_path(h)
           a == register_object(objects, id_to_object_path, h, lvm_id, uuid, FALSE)
           u == lookup_update(objects, id_to_object_path, h, uuid, lvm_id)
       IN \A k \in DOMAIN id_to_object_path \ {uuid, lvm_id} :
            id_to_object_path[k] # P
              => /\ k \in DOMAIN a.ids /\ a.ids[k] = id_to_object_path[k]
                 /\ k \in DOMAIN u.ids /\ u.ids[k] = id_to_object_path[k]
  /\ \A uuid \in LookupIds : \A lvm_id \in LookupIds : \A m \in Modes :
       LET r == get_object_path_by_uuid_lvm_id(objects, id_to_object_path, next_path,
                                               uuid, lvm_id, m[1], m[2])
       IN (uuid # lvm_id /\ r.branch \in {"uuid_adds_lvm_id", "lvm_id_adds_uuid"})
          => \A k \in DOMAIN id_to_object_path \ {uuid, lvm_id} :
               id_to_object_path[k] # r.ret
                 => k \in DOMAIN r.ids /\ r.ids[k] = id_to_object_path[k]

\* C19: register_object or lookup_update of an object with neither
\* identifier fails its assertion and has no effect: the entry table and
\* the index are as before the call, the entry registered at the object's
\* path included, and no InterfacesAdded is emitted.
FailedCallHasNoEffect ==
  \A h \in Handles :
    LET a == register_object(objects, id_to_object_path, h, Empty, Empty, TRUE)
        u == lookup_update(objects, id_to_object_path, h, Empty, Empty)
    IN /\ a.raised /\ a.emits = <<>>
       /\ a.objects = objects /\ a.ids = id_to_object_path
       /\ u.raised
       /\ u.objects = objects /\ u.ids = id_to_object_path

\* C20: threads that call get_object_path_by_uuid_lvm_id with the same uuid
\* and lvm_id and gen_new = True on a registry that indexes neither: in every
\* interleaving path_create is called once in all (no path was minted
\* before, so next_path counts the calls), one placeholder is created, and
\* every call returns its path.
Resolved(t) == tlast[t].op = "get_object_path_by_uuid_lvm_id"
ConcurrentResolveCreatesOnce ==
  /\ next_path <= 1
  /\ Size(objects) <= 1
  /\ \A t \in Threads :
       Resolved(t)
         => /\ ~tlast[t].raised
            /\ next_path = 1
            /\ tlast[t].ret = next_path
            /\ DOMAIN objects = {next_path}
            /\ objects[next_path] = [obj |-> None, lvm_id |-> AssetLvmId, uuid |-> AssetUuid]
            /\ DOMAIN id_to_object_path = {AssetLvmId, AssetUuid}
            /\ \A k \in DOMAIN id_to_object_path : id_to_object_path[k] = next_path

\* Every thread has made the call and has returned from it, and path_create
\* was called.
ConcurrentResolveWitness ==
  /\ \A t \in Threads : Resolved(t) /\ pc[t] = "idle"
  /\ next_path = 1

====
